---- MODULE Spec2Model ----
(***************************************************************************)
(* Model of the internship tracker's project timeline (Gantt) layout:      *)
(* src/components/Projects.tsx (timelineData, todayPercent, timeline rows) *)
(* driven by the project store of src/App.tsx (saveProject/deleteProject); *)
(* of the Logbook's filter (src/unnamed/part_001, displayedLogs); and of   *)
(* the AI text helper (src/services/geminiService.ts) with its caller      *)
(* handleAIImprove; of the report editor (src/components/Reports.tsx,      *)
(* handleAutoSummarize); and of App's store with its localStorage effects  *)
(* and the delete confirmations.  The machines are Spec and SpecRows       *)
(* (timeline), SpecFilter, SpecAI, SpecReports and SpecStore.              *)
(*                                                                         *)
(* Representation.                                                         *)
(*  - A JavaScript Date is its time value counted in HOURS since the Unix  *)
(*    epoch (the source counts milliseconds; 86400000 ms = DayLen hours).  *)
(*    An hour is fine enough to keep what the code depends on: the         *)
(*    time-of-day that `new Date()` carries and the local/UTC offset.      *)
(*  - The local time zone is a fixed offset tz (hours east of UTC) without *)
(*    daylight saving; getDate/setDate/getMonth/setMonth work on local     *)
(*    calendar fields as in JavaScript, overflow included.                 *)
(*  - A date string "YYYY-MM-DD" (the value of <input type="date">) is the *)
(*    tuple <<y, m, d>>; the empty string is NoDate.  new Date("Y-M-D") is *)
(*    UTC midnight of that day.                                            *)
(*  - A percentage p is kept exactly as the numerator p * totalDuration    *)
(*    (an integer); every percentage of one timeline shares the            *)
(*    denominator totalDuration, which is > 0 whenever a percentage is     *)
(*    computed.  Floating-point rounding is not modelled.                  *)
(***************************************************************************)
EXTENDS Integers, Sequences, FiniteSets, TLC

\* ------------------------------------------------------------------ bounds
MaxProjects == 2
MaxTicks == 1
TickStep == 1000

\* --------------------------------------------------------- program constants
DayLen == 24
DefaultDurationDays == 30
LeadInDays == 15
TrailOutDays == 45

\* ------------------------------------------------------------ input domains
NoDate == <<>>
\* <<startDate, endDate>> of the projects a user saves: both dates (the two
\* projects of the worked example), equal dates, an end before the start by
\* less and by more than the buffers, one date only, no date.
ProjectDates ==
    { << <<2024, 1, 10>>, <<2024, 1, 20>> >>,
      << <<2024, 2, 1>>,  <<2024, 2, 5>> >>,
      << <<2024, 1, 10>>, <<2024, 1, 10>> >>,
      << <<2024, 2, 5>>,  <<2024, 1, 20>> >>,
      << <<2024, 1, 10>>, <<2023, 11, 1>> >>,
      << <<2024, 2, 1>>,  NoDate >>,
      << NoDate,          <<2024, 1, 16>> >>,
      << NoDate,          NoDate >> }
TimeZones == {-5, 0, 7}

\* projects     : data.projects of App, the prop of the Projects component
\* now          : the wall clock, hours since the epoch
\* tz           : offset of the local time zone, hours east of UTC
\* timelineData : the memoised value of timelineData (Null when absent)
\* rawBounds    : the bounds timelineData held before it applied the buffers,
\*                with the clock reading it used (Null when it had none)
\* todayPercent : the memoised today-marker position (NoMarker = -1)
\* bars         : the rows drawn by the last render of the timeline view
VARIABLES projects, now, tz, timelineData, rawBounds, todayPercent, bars

\* logs               : data.logs of App, the prop of the Logbook component
\* filterWeek         : the filterWeek prop (true on the dashboard)
\* searchQuery        : the search box of the Logbook (a text, <<>> when empty)
\* selectedAttendance : the attendance filter ("" = All Statuses)
\* selectedTag        : the tag filter ("" = All Tags)
\* displayedLogs      : the memoised value of displayedLogs
\* filterAt           : the clock reading displayedLogs was computed with
VARIABLES logs, filterWeek, searchQuery, selectedAttendance, selectedTag,
          displayedLogs, filterAt

\* apiKey     : whether process.env.API_KEY is set
\* editingLog : the activity and learnings drafts of the log being edited
\* isThinking : the isThinking flag of the Logbook
\* calls      : the calls of handleAIImprove that have not finished
VARIABLES apiKey, editingLog, isThinking, calls

timelineVars == <<projects, timelineData, rawBounds, todayPercent, bars>>
filterVars ==
    <<logs, filterWeek, searchQuery, selectedAttendance, selectedTag,
      displayedLogs, filterAt>>
aiVars == <<apiKey, editingLog, isThinking, calls>>

\* editingReport : the report being edited in the Reports component
\* isSummarizing : the isSummarizing flag of the Reports component
\* summaryCalls  : the calls of handleAutoSummarize that have not finished
VARIABLES editingReport, isSummarizing, summaryCalls

\* data          : the `data` state of App as the last render saw it
\* pending       : the value a setData of the load effect has queued (or Null)
\* stored        : localStorage under LOCAL_STORAGE_KEY
\* phase         : what React runs next: the load effect, the save effect, a
\*                 render of queued state, or nothing ("idle": user events)
\* logToDelete   : the logToDelete state of the Logbook (NoId when null)
\* confirmDialog : the window.confirm dialog that is open (or Null)
VARIABLES data, pending, stored, phase, logToDelete, confirmDialog

reportVars == <<editingReport, isSummarizing, summaryCalls>>
storeVars == <<data, pending, stored, phase, logToDelete, confirmDialog>>

vars == <<now, tz, timelineVars, filterVars, aiVars, reportVars, storeVars>>

Null == [null |-> TRUE]
NoMarker == -1

\* ------------------------------------------------------- proleptic calendar
\* Days since 1970-01-01 of the civil date y-m-d; d may lie outside the
\* month (the way Date normalises setDate(0), setDate(-14), setDate(61)).
DaysFromCivil(y, m, d) ==
    LET yy  == IF m <= 2 THEN y - 1 ELSE y
        era == yy \div 400
        yoe == yy - era * 400
        mp  == IF m > 2 THEN m - 3 ELSE m + 9
        doy == (153 * mp + 2) \div 5 + d - 1
        doe == yoe * 365 + yoe \div 4 - yoe \div 100 + doy
    IN  era * 146097 + doe - 719468

\* The inverse, in steps: each step receives what the previous ones found.
CivilFromMonthPart(era, yoe, doy, mp) ==
    [year  |-> yoe + era * 400 + (IF mp < 10 THEN 0 ELSE 1),
     month |-> IF mp < 10 THEN mp + 3 ELSE mp - 9,
     day   |-> doy - (153 * mp + 2) \div 5 + 1]

CivilFromDayOfYear(era, yoe, doy) ==
    CivilFromMonthPart(era, yoe, doy, (5 * doy + 2) \div 153)

CivilFromYearOfEra(era, doe, yoe) ==
    CivilFromDayOfYear(era, yoe, doe - (365 * yoe + yoe \div 4 - yoe \div 100))

CivilFromDayOfEra(era, doe) ==
    CivilFromYearOfEra(era, doe,
        (doe - doe \div 1460 + doe \div 36524 - doe \div 146096) \div 365)

CivilFromEra(zz, era) == CivilFromDayOfEra(era, zz - era * 146097)

CivilFromDays(z) == CivilFromEra(z + 719468, (z + 719468) \div 146097)

\* new Date("YYYY-MM-DD"): a date-only string is UTC midnight.
ParseDate(s) == DaysFromCivil(s[1], s[2], s[3]) * DayLen

\* Local calendar fields of a time value (month 0-based, as getMonth).
FieldsOf(c, hours) ==
    [year |-> c.year, month |-> c.month - 1, date |-> c.day, hours |-> hours]

LocalFields(t, z) == FieldsOf(CivilFromDays((t + z) \div DayLen), (t + z) % DayLen)

\* Time value of local fields f; f.month and f.date may overflow.
MakeLocal(f, z) ==
    DaysFromCivil(f.year + f.month \div 12, (f.month % 12) + 1, f.date) * DayLen
        + f.hours - z

GetDate(t, z) == LocalFields(t, z).date
GetMonth(t, z) == LocalFields(t, z).month

SetDate(t, d, z) == MakeLocal([LocalFields(t, z) EXCEPT !.date = d], z)

SetMonth(t, m, z) == MakeLocal([LocalFields(t, z) EXCEPT !.month = m], z)

\* toLocaleDateString('default', {month: 'short', year: '2-digit'}): the
\* local month (1..12, standing for its abbreviated name) and 2-digit year.
LabelOf(f) == [month |-> f.month + 1, year2 |-> f.year % 100]

MonthLabel(t, z) == LabelOf(LocalFields(t, z))

\* ------------------------------------------------------------ Projects.tsx
Min(a, b) == IF a <= b THEN a ELSE b
Max(a, b) == IF a >= b THEN a ELSE b

\* p.startDate || p.endDate : the empty string is falsy.
HasDate(p) == p.startDate # NoDate \/ p.endDate # NoDate

\* Mutant of ValidProjects: projects without dates are not filtered out.
ValidProjectsAll(ps) == ps

\* projects.filter(p => p.startDate || p.endDate)
ValidProjects(ps) == SelectSeq(ps, HasDate)

\* Date-range normalisation as the bounds computation writes it:
\* start = startDate ? new Date(startDate) : new Date()
NormStart(p, t) == IF p.startDate # NoDate THEN ParseDate(p.startDate) ELSE t

\* end = endDate ? new Date(endDate) : new Date(start.getTime() + 86400000 * 30)
NormEnd(p, t) ==
    IF p.endDate # NoDate THEN ParseDate(p.endDate)
    ELSE NormStart(p, t) + DayLen * DefaultDurationDays

\* Mutant of BoundsStep: a later project never extends maxDate.
BoundsStepNoMax(acc, start, end, idx) ==
    IF idx = 1
    THEN [minDate |-> start, maxDate |-> end]
    ELSE [minDate |-> IF start < acc.minDate THEN start ELSE acc.minDate,
          maxDate |-> acc.maxDate]

\* Body of the forEach callback that determines the bounds.
BoundsStep(acc, start, end, idx) ==
    IF idx = 1
    THEN [minDate |-> start, maxDate |-> end]
    ELSE [minDate |-> IF start < acc.minDate THEN start ELSE acc.minDate,
          maxDate |-> IF end > acc.maxDate THEN end ELSE acc.maxDate]

\* validProjects.forEach(...) from minDate = maxDate = new Date().
RECURSIVE BoundsFold(_, _, _, _)
BoundsFold(vps, idx, acc, t) ==
    IF idx > Len(vps) THEN acc
    ELSE BoundsFold(vps, idx + 1,
                    BoundsStep(acc, NormStart(vps[idx], t), NormEnd(vps[idx], t), idx),
                    t)

RawBounds(vps, t) == BoundsFold(vps, 1, [minDate |-> t, maxDate |-> t], t)

\* Mutant of PadMin: a lead-in of 14 days.
PadMinShort(t, z) == SetDate(t, GetDate(t, z) - 14, z)

\* minDate.setDate(minDate.getDate() - 15)
PadMin(t, z) == SetDate(t, GetDate(t, z) - LeadInDays, z)

\* maxDate.setDate(maxDate.getDate() + 45)
PadMax(t, z) == SetDate(t, GetDate(t, z) + TrailOutDays, z)

\* Mutant of Collapsed: only a zero span is rejected.
CollapsedOnlyZero(totalDuration) == totalDuration = 0

\* if (totalDuration <= 0) return null
Collapsed(totalDuration) == totalDuration <= 0

\* Mutant of Percent: the factor 100 is missing.
PercentUnscaled(time, minDate) == time - minDate

\* ((time - minDate) / totalDuration) * 100, as a numerator over totalDuration
Percent(time, minDate) == 100 * (time - minDate)

\* Mutant of Emits: every instant the loop visits gets a gridline.
EmitsAlways(iterTime, left, minDate, total) == TRUE

\* if (iterTime >= minDate.getTime()) { ... if (left >= 0 && left <= 100) ... }
Emits(iterTime, left, minDate, total) ==
    iterTime >= minDate /\ left >= 0 /\ left <= 100 * total

\* Mutant of NextMonth: the loop advances two months at a time.
NextMonthSkips(iter, z) == SetMonth(iter, GetMonth(iter, z) + 2, z)

\* currentIter.setMonth(currentIter.getMonth() + 1)
NextMonth(iter, z) == SetMonth(iter, GetMonth(iter, z) + 1, z)

\* One pass of the loop body: the gridline pushed for iterTime, if any.
MonthEntry(iterTime, left, minDate, total, z) ==
    IF Emits(iterTime, left, minDate, total)
    THEN <<[label |-> MonthLabel(iterTime, z), left |-> left]>>
    ELSE <<>>

\* while (currentIter <= maxDate) { ... }
RECURSIVE MonthLoop(_, _, _, _, _)
MonthLoop(iter, minDate, maxDate, total, z) ==
    IF iter > maxDate THEN <<>>
    ELSE MonthEntry(iter, Percent(iter, minDate), minDate, total, z)
            \o MonthLoop(NextMonth(iter, z), minDate, maxDate, total, z)

\* const currentIter = new Date(minDate); currentIter.setDate(1); loop
Months(minDate, maxDate, total, z) ==
    MonthLoop(SetDate(minDate, 1, z), minDate, maxDate, total, z)

\* The bounds before the buffers are applied (Null when nothing has a date).
TimelineRawBounds(ps, t) ==
    IF Len(ps) = 0 THEN Null
    ELSE IF Len(ValidProjects(ps)) = 0 THEN Null
    ELSE RawBounds(ValidProjects(ps), t)

\* The part of timelineData after the buffers are applied.
WindowTimeline(minDate, maxDate, z) ==
    IF Collapsed(maxDate - minDate) THEN Null
    ELSE [minDate |-> minDate, maxDate |-> maxDate,
          totalDuration |-> maxDate - minDate,
          months |-> Months(minDate, maxDate, maxDate - minDate, z)]

\* The part of timelineData after the bounds are determined.
PaddedTimeline(raw, z) ==
    WindowTimeline(PadMin(raw.minDate, z), PadMax(raw.maxDate, z), z)

\* useMemo(() => {...}, [projects]) : timelineData
TimelineData(ps, t, z) ==
    LET raw == TimelineRawBounds(ps, t)
    IN  IF raw = Null THEN Null ELSE PaddedTimeline(raw, z)

\* Mutant of TodayPercent: a marker outside the window is clamped to an edge.
TodayPercentClamped(td, t) ==
    IF td = Null THEN NoMarker
    ELSE Max(0, Min(100 * td.totalDuration, Percent(t, td.minDate)))

\* useMemo(() => {...}, [timelineData]) : todayPercent
TodayPercent(td, t) ==
    IF td = Null THEN NoMarker
    ELSE LET p == Percent(t, td.minDate)
         IN  IF p >= 0 /\ p <= 100 * td.totalDuration THEN p ELSE NoMarker

\* Mutant of StartPercent: the left edge is not clamped at 0.
StartPercentUnclamped(start, td) == Percent(start, td.minDate)

\* Math.max(0, ...) for the left edge of a bar
StartPercent(start, td) == Max(0, Percent(start, td.minDate))

\* Math.min(100, ...) for the right edge of a bar
EndPercent(end, td) == Min(100 * td.totalDuration, Percent(end, td.minDate))

\* Mutant of WidthPercent: no floor of 1%.
WidthPercentNoFloor(startPercent, endPercent, td) == endPercent - startPercent

\* Math.max(1, endPercent - startPercent)
WidthPercent(startPercent, endPercent, td) ==
    Max(1 * td.totalDuration, endPercent - startPercent)

\* One timeline row.
BarOf(startPercent, endPercent, td) ==
    [startPercent |-> startPercent, endPercent |-> endPercent,
     widthPercent |-> WidthPercent(startPercent, endPercent, td)]

\* Date-range normalisation as the rows write it:
\* startDate = project.startDate ? new Date(project.startDate) : new Date()
RowStart(p, t) == IF p.startDate # NoDate THEN ParseDate(p.startDate) ELSE t

\* Mutant of RowEnd: the rows default a missing end to start + 7 days.
RowEndWeek(p, t) ==
    IF p.endDate # NoDate THEN ParseDate(p.endDate)
    ELSE RowStart(p, t) + DayLen * 7

\* endDate = project.endDate ? new Date(project.endDate)
\*                           : new Date(startDate.getTime() + 86400000 * 30)
RowEnd(p, t) ==
    IF p.endDate # NoDate THEN ParseDate(p.endDate)
    ELSE RowStart(p, t) + DayLen * DefaultDurationDays

Bar(p, td, t) ==
    BarOf(StartPercent(RowStart(p, t), td), EndPercent(RowEnd(p, t), td), td)

\* The rows of the timeline view: none when there are no projects or no
\* timeline, else projects.map(...) over ALL projects.
Bars(ps, td, t) ==
    IF Len(ps) = 0 \/ td = Null THEN <<>>
    ELSE [i \in 1..Len(ps) |-> Bar(ps[i], td, t)]

\* ------------------------------------------------------------------ App.tsx
\* The timeline reads only the dates of a project.  Its id (a random UUID
\* given by the editor, compared only for equality) is what saveProject and
\* deleteProject use to find the record; with ids unique a record is
\* identified by its position i, which is how the model names it.

\* saveProject, project.id found: prev.projects.map(p => p.id === id ? project : p)
ReplaceProject(ps, i, project) ==
    [k \in 1..Len(ps) |-> IF k = i THEN project ELSE ps[k]]

\* saveProject, project.id not found: [...prev.projects, project]
AppendProject(ps, project) == Append(ps, project)

\* deleteProject: prev.projects.filter(p => p.id !== id)
RemoveProject(ps, i) ==
    [k \in 1..(Len(ps) - 1) |-> IF k < i THEN ps[k] ELSE ps[k + 1]]

\* -------------------------------------------------------------- the machine
\* The Logbook and the AI helper while the projects view is on screen.
FilterIdle ==
    /\ logs = <<>>
    /\ filterWeek = FALSE
    /\ searchQuery = <<>>
    /\ selectedAttendance = ""
    /\ selectedTag = ""
    /\ displayedLogs = <<>>
    /\ filterAt = now
AIIdle ==
    /\ apiKey = FALSE
    /\ editingLog = [activity |-> <<>>, learnings |-> <<>>]
    /\ isThinking = FALSE
    /\ calls = <<>>
NoId == 0
NoItem == [item |-> "none"]
INITIAL_DATA == [logs |-> <<>>, reports |-> <<>>, projects |-> <<>>]
ReportIdle ==
    /\ editingReport = [id |-> NoId, month |-> <<>>, summary |-> <<>>, linkedLogIds |-> <<>>]
    /\ isSummarizing = FALSE
    /\ summaryCalls = <<>>
StoreIdle ==
    /\ data = INITIAL_DATA
    /\ pending = Null
    /\ stored = NoItem
    /\ phase = "idle"
    /\ logToDelete = NoId
    /\ confirmDialog = Null

Now0 == DaysFromCivil(2024, 1, 12) * DayLen + 12

ProjectInputs == { [startDate |-> d[1], endDate |-> d[2]] : d \in ProjectDates }

\* What timelineData held before the buffers, and the clock it read.
RawBoundsAt(ps, t) ==
    LET raw == TimelineRawBounds(ps, t)
    IN  IF raw = Null THEN Null
        ELSE [minDate |-> raw.minDate, maxDate |-> raw.maxDate, at |-> t]

\* A render after `projects` changed (or a fresh mount): both memos are
\* recomputed and the rows are drawn, all reading the current clock.
Recompute(ps) ==
    /\ timelineData' = TimelineData(ps, now, tz)
    /\ rawBounds' = RawBoundsAt(ps, now)
    /\ todayPercent' = TodayPercent(timelineData', now)
    /\ bars' = Bars(ps, timelineData', now)

Init ==
    /\ projects = <<>>
    /\ now = Now0
    /\ tz \in TimeZones
    /\ timelineData = Null
    /\ rawBounds = Null
    /\ todayPercent = NoMarker
    /\ bars = <<>>
    /\ FilterIdle
    /\ AIIdle
    /\ ReportIdle
    /\ StoreIdle

\* handleOpenModal(project) ... handleSave -> onSave -> saveProject for a
\* project of the list, then the render it causes.
EditProject ==
    \E i \in 1..Len(projects), project \in ProjectInputs :
        /\ projects' = ReplaceProject(projects, i, project)
        /\ Recompute(projects')
        /\ UNCHANGED <<now, tz, filterVars, aiVars, reportVars, storeVars>>

\* handleOpenModal() ... handleSave -> onSave -> saveProject for a new
\* project (fresh id), then the render it causes.
AddProject ==
    \E project \in ProjectInputs :
        /\ Len(projects) < MaxProjects
        /\ projects' = AppendProject(projects, project)
        /\ Recompute(projects')
        /\ UNCHANGED <<now, tz, filterVars, aiVars, reportVars, storeVars>>

\* onDelete(project.id) -> deleteProject: nothing happens unless confirm()
\* is accepted.
DeleteProject ==
    \E i \in 1..Len(projects), confirmed \in BOOLEAN :
        /\ IF confirmed
           THEN /\ projects' = RemoveProject(projects, i)
                /\ Recompute(projects')
           ELSE UNCHANGED <<projects, timelineData, rawBounds, todayPercent, bars>>
        /\ UNCHANGED <<now, tz, filterVars, aiVars, reportVars, storeVars>>

\* A render with `projects` unchanged (modal opened or closed, view mode
\* toggled): the memos keep their values, the rows read the clock again.
Rerender ==
    /\ bars' = Bars(projects, timelineData, now)
    /\ UNCHANGED <<projects, now, tz, timelineData, rawBounds, todayPercent>>
    /\ UNCHANGED <<filterVars, aiVars, reportVars, storeVars>>

\* Leaving the projects view and coming back mounts the component anew.
Remount ==
    /\ Recompute(projects)
    /\ UNCHANGED <<projects, now, tz, filterVars, aiVars, reportVars, storeVars>>

\* Time passes.
Tick ==
    /\ now + TickStep <= Now0 + MaxTicks * TickStep
    /\ now' = now + TickStep
    /\ UNCHANGED <<projects, tz, timelineData, rawBounds, todayPercent, bars>>
    /\ UNCHANGED <<filterVars, aiVars, reportVars, storeVars>>

Next == EditProject \/ AddProject \/ DeleteProject \/ Rerender \/ Remount \/ Tick

Spec == Init /\ [][Next]_vars

TypeOK ==
    /\ \A i \in 1..Len(projects) : projects[i] \in ProjectInputs
    /\ Len(projects) <= MaxProjects
    /\ tz \in TimeZones
    /\ now \in {Now0 + k * TickStep : k \in 0..MaxTicks}

\* ================================================================ properties
\* Helpers of the properties (they do not model code).
Total == timelineData.totalDuration
UTC(y, m, d) == DaysFromCivil(y, m, d) * 24
BothDates(p) == p.startDate # NoDate /\ p.endDate # NoDate
ExampleFirst == [startDate |-> <<2024, 1, 10>>, endDate |-> <<2024, 1, 20>>]
ExampleSecond == [startDate |-> <<2024, 2, 1>>, endDate |-> <<2024, 2, 5>>]
ExampleShown ==
    /\ projects = <<ExampleFirst, ExampleSecond>>
    /\ timelineData # Null
    /\ Len(bars) = 2
MonthLabels == [k \in 1..Len(timelineData.months) |-> timelineData.months[k].label]
LeftIncreasing ==
    \A k \in 1..(Len(timelineData.months) - 1) :
        timelineData.months[k].left < timelineData.months[k + 1].left
\* The instant of a gridline, recovered from its position.
GridTimes ==
    { timelineData.minDate + timelineData.months[k].left \div 100 :
        k \in 1..Len(timelineData.months) }

\* C1: before the buffers are applied, minDate is at or before the normalised
\* start, and maxDate at or after the normalised end, of every project that
\* has at least one date.
C1_BoundsCoverIntervals ==
    rawBounds # Null =>
        \A i \in 1..Len(projects) :
            HasDate(projects[i]) =>
                /\ rawBounds.minDate <= NormStart(projects[i], rawBounds.at)
                /\ rawBounds.maxDate >= NormEnd(projects[i], rawBounds.at)

\* C1 witness: two dated projects, the second starting first and the first
\* ending last, so both comparisons of the scan decided the bounds.
C1_Witness ==
    /\ Len(projects) = 2 /\ rawBounds # Null
    /\ HasDate(projects[1]) /\ HasDate(projects[2])
    /\ NormStart(projects[2], rawBounds.at) < NormStart(projects[1], rawBounds.at)
    /\ NormEnd(projects[2], rawBounds.at) > NormEnd(projects[1], rawBounds.at)
    /\ rawBounds.minDate = NormStart(projects[2], rawBounds.at)
    /\ rawBounds.maxDate = NormEnd(projects[2], rawBounds.at)

\* C2: every timeline has totalDuration > 0; a padded window of non-positive
\* span gives no timeline; rows, gridlines and the today marker exist only
\* with a timeline, so no percentage is computed over a non-positive span.
C2_PositiveDuration ==
    /\ timelineData # Null => Total > 0
    /\ (rawBounds # Null
          /\ (rawBounds.maxDate + 45 * 24) - (rawBounds.minDate - 15 * 24) <= 0)
         => timelineData = Null
    /\ bars # <<>> => timelineData # Null
    /\ todayPercent # NoMarker => timelineData # Null

\* C2 witness: a single project whose end date lies more than 60 days before
\* its start date has been saved, and no timeline was produced.
C2_Witness ==
    /\ Len(projects) = 1 /\ BothDates(projects[1])
    /\ ParseDate(projects[1].endDate) + 60 * 24 < ParseDate(projects[1].startDate)
    /\ rawBounds # Null /\ timelineData = Null
    /\ bars = <<>> /\ todayPercent = NoMarker

\* C3 (as claimed): both edges of every rendered bar lie on the axis,
\* 0 <= startPercent <= 100 and 0 <= endPercent <= 100.
C3_BarEdgesClamped ==
    \A i \in 1..Len(bars) :
        /\ 0 <= bars[i].startPercent /\ bars[i].startPercent <= 100 * Total
        /\ 0 <= bars[i].endPercent /\ bars[i].endPercent <= 100 * Total

\* C4: widthPercent = max(1, endPercent - startPercent) >= 1 for every bar,
\* and exactly 1 for a project whose start date equals its end date.
C4_WidthFloor ==
    \A i \in 1..Len(bars) :
        /\ bars[i].widthPercent >= 1 * Total
        /\ bars[i].widthPercent >= bars[i].endPercent - bars[i].startPercent
        /\ \/ bars[i].widthPercent = 1 * Total
           \/ bars[i].widthPercent = bars[i].endPercent - bars[i].startPercent
        /\ (BothDates(projects[i]) /\ projects[i].startDate = projects[i].endDate)
              => bars[i].widthPercent = 1 * Total

\* C4 witness: a bar drawn for a project with start date = end date.
C4_Witness ==
    \E i \in 1..Len(bars) :
        /\ BothDates(projects[i]) /\ projects[i].startDate = projects[i].endDate
        /\ bars[i].endPercent = bars[i].startPercent
        /\ bars[i].widthPercent = 1 * Total

\* C5: every gridline has 0 <= left <= 100 and the gridlines are emitted in
\* strictly increasing order of left.
C5_GridlinesOrdered ==
    timelineData # Null =>
        /\ \A k \in 1..Len(timelineData.months) :
              /\ 0 <= timelineData.months[k].left
              /\ timelineData.months[k].left <= 100 * Total
        /\ LeftIncreasing

\* C5 witness: a timeline with at least three gridlines whose window does not
\* start on the first instant the loop visits (so one candidate was dropped).
C5_Witness ==
    /\ timelineData # Null
    /\ Len(timelineData.months) >= 3
    /\ timelineData.months[1].left > 0

\* C6 (as claimed): for the example projects the gridlines are Dec'23,
\* Jan'24, Feb'24 and Mar'24, in that order, with increasing percent.
C6_ExampleGridlinesClaimed ==
    ExampleShown =>
        /\ MonthLabels = << [month |-> 12, year2 |-> 23], [month |-> 1, year2 |-> 24],
                            [month |-> 2, year2 |-> 24], [month |-> 3, year2 |-> 24] >>
        /\ LeftIncreasing

\* C6 (amended): for the example projects the gridlines are Jan'24, Feb'24
\* and Mar'24, in that order, with increasing percent; Dec'23 gets none,
\* its first day lying before minDate.
C6_ExampleGridlines ==
    ExampleShown =>
        /\ MonthLabels = << [month |-> 1, year2 |-> 24], [month |-> 2, year2 |-> 24],
                            [month |-> 3, year2 |-> 24] >>
        /\ LeftIncreasing

\* C6 witness: the example projects are on the timeline with three gridlines.
C6_Witness == ExampleShown /\ Len(timelineData.months) = 3

\* C7 (as claimed): for the example projects the first bar starts at about
\* 15.8% (taken as 15.8 +- 0.5), the second bar starts further right, and both
\* widths are >= 1.
C7_ExampleBarsClaimed ==
    ExampleShown =>
        /\ 1530 * Total <= 100 * bars[1].startPercent
        /\ 100 * bars[1].startPercent <= 1630 * Total
        /\ bars[2].startPercent > bars[1].startPercent
        /\ bars[1].widthPercent >= 1 * Total /\ bars[2].widthPercent >= 1 * Total

\* C7 (amended): for the example projects the first bar starts at about
\* 17.4% (15 of 86 days; taken as 17.4 +- 0.05), the second bar starts further
\* right, and both widths are >= 1.
C7_ExampleBars ==
    ExampleShown =>
        /\ 1735 * Total <= 100 * bars[1].startPercent
        /\ 100 * bars[1].startPercent <= 1745 * Total
        /\ bars[2].startPercent > bars[1].startPercent
        /\ bars[1].widthPercent >= 1 * Total /\ bars[2].widthPercent >= 1 * Total

\* C7 witness: the example projects are drawn, the first bar 10 days wide.
C7_Witness ==
    /\ ExampleShown
    /\ bars[1].widthPercent = 100 * 10 * 24
    /\ bars[2].startPercent = 100 * 37 * 24

C9_OnlyDatedProjects ==
    /\ (\A i \in 1..Len(projects) : ~HasDate(projects[i]))
         => (timelineData = Null /\ rawBounds = Null)
    /\ rawBounds # Null =>
          /\ \E i \in 1..Len(projects) :
                HasDate(projects[i])
                  /\ rawBounds.minDate = NormStart(projects[i], rawBounds.at)
          /\ \E i \in 1..Len(projects) :
                HasDate(projects[i])
                  /\ rawBounds.maxDate = NormEnd(projects[i], rawBounds.at)

\* C9 witness: a project without dates precedes a dated one (whose dates lie
\* inside the dateless project's defaulted interval); the bounds are taken
\* from the dated one alone.
C9_Witness ==
    /\ Len(projects) = 2 /\ ~HasDate(projects[1]) /\ BothDates(projects[2])
    /\ rawBounds # Null /\ timelineData # Null
    /\ rawBounds.minDate = ParseDate(projects[2].startDate)
    /\ rawBounds.maxDate = ParseDate(projects[2].endDate)
    /\ rawBounds.at < rawBounds.minDate
    /\ rawBounds.maxDate < rawBounds.at + 30 * 24

\* The first-of-month instants (local midnight of day 1) of the years the
\* window touches.
MonthStarts ==
    { MakeLocal([year |-> y, month |-> m, date |-> 1, hours |-> 0], tz) :
        y \in LocalFields(timelineData.minDate, tz).year
                ..LocalFields(timelineData.maxDate, tz).year,
        m \in 0..11 }

\* C10 (as claimed): the gridlines are exactly the first-of-month instants t
\* with minDate <= t <= maxDate, one gridline each.
C10_GridlinesAtMonthStarts ==
    timelineData # Null =>
        /\ GridTimes = { t \in MonthStarts :
                           timelineData.minDate <= t /\ t <= timelineData.maxDate }
        /\ Cardinality(GridTimes) = Len(timelineData.months)

\* C11 (as claimed): every interval that is laid out has start <= end; a
\* project whose end date precedes its start date gets no bar.
C11_IntervalsOrdered ==
    \A i \in 1..Len(bars) :
        BothDates(projects[i]) =>
            ParseDate(projects[i].startDate) <= ParseDate(projects[i].endDate)

\* The normalisation rule, stated apart from the code: the clock reading t
\* for a missing start, start + 30 days for a missing end.
RuleStart(p, t) == IF p.startDate = NoDate THEN t ELSE UTC(p.startDate[1], p.startDate[2], p.startDate[3])
RuleEnd(p, t) ==
    IF p.endDate = NoDate THEN RuleStart(p, t) + 30 * 24
    ELSE UTC(p.endDate[1], p.endDate[2], p.endDate[3])
ClockReadings == { Now0 + k * TickStep : k \in 0..MaxTicks }

\* C12: the bounds are the least start and the greatest end that the rule
\* (current time for a missing start, start + 30 days for a missing end)
\* gives the dated projects, and every bar is placed at the start and end
\* that the same rule gives its project, for the clock reading of the render.
C12_SameNormalisation ==
    /\ rawBounds # Null =>
          \A i \in 1..Len(projects) :
              HasDate(projects[i]) =>
                  /\ rawBounds.minDate <= RuleStart(projects[i], rawBounds.at)
                  /\ rawBounds.maxDate >= RuleEnd(projects[i], rawBounds.at)
    /\ rawBounds # Null =>
          /\ \E i \in 1..Len(projects) :
                HasDate(projects[i])
                  /\ rawBounds.minDate = RuleStart(projects[i], rawBounds.at)
          /\ \E i \in 1..Len(projects) :
                HasDate(projects[i])
                  /\ rawBounds.maxDate = RuleEnd(projects[i], rawBounds.at)
    /\ bars # <<>> =>
          \E t \in ClockReadings :
              /\ rawBounds.at <= t /\ t <= now
              /\ \A i \in 1..Len(bars) :
                    /\ bars[i].startPercent
                         = Max(0, 100 * (RuleStart(projects[i], t) - timelineData.minDate))
                    /\ bars[i].endPercent
                         = Min(100 * Total,
                               100 * (RuleEnd(projects[i], t) - timelineData.minDate))

\* C12 witness: a project with only a start date and one with only an end
\* date are on the timeline, each deciding one of the bounds.
C12_Witness ==
    /\ Len(bars) = 2 /\ rawBounds # Null
    /\ \E i, j \in 1..2 :
          /\ projects[i].startDate # NoDate /\ projects[i].endDate = NoDate
          /\ projects[j].startDate = NoDate /\ projects[j].endDate # NoDate
          /\ rawBounds.minDate = rawBounds.at
          /\ rawBounds.maxDate = ParseDate(projects[i].startDate) + 30 * 24
          /\ bars[j].startPercent = 100 * (rawBounds.at - timelineData.minDate)

MaxLogs == 3
FilterTickStep == 7
WeekDays == 7

AttendanceStatus == {"Present", "Permission", "Sick", "WFH"}
SearchQueries == { <<>>, <<"a", "B">> }
\* <<date, attendance, activity, learnings, challenges, tags>> of the logs a
\* user keeps: dated two weeks back, seven and eight days back, within the
\* week and in the future, with the query text in any of the fields.
LogSamples ==
    { << <<2024, 6, 1>>,  "Present", <<"A", "b">>, <<>>,         <<>>,         <<>> >>,
      << <<2024, 6, 7>>,  "Sick",    <<"b">>,      <<"a", "B">>, <<>>,         <<"x">> >>,
      << <<2024, 6, 8>>,  "Present", <<"b", "a">>, <<>>,         <<"A", "B">>, <<"x", "y">> >>,
      << <<2024, 6, 10>>, "WFH",     <<"a">>,      <<>>,         <<>>,         <<"y">> >>,
      << <<2024, 6, 20>>, "Sick",    <<"A", "b">>, <<>>,         <<>>,         <<"x">> >> }

\* String.prototype.toLowerCase
ToLowerChar(c) == IF c = "A" THEN "a" ELSE IF c = "B" THEN "b" ELSE c
ToLowerCase(s) == [i \in 1..Len(s) |-> ToLowerChar(s[i])]

\* String.prototype.includes
Includes(s, q) == \E i \in 0..(Len(s) - Len(q)) : SubSeq(s, i + 1, i + Len(q)) = q

\* Array.prototype.includes
TagsInclude(tags, tag) == \E i \in 1..Len(tags) : tags[i] = tag

\* new Date(now.setDate(now.getDate() - 7))
OneWeekAgo(t, z) == SetDate(t, GetDate(t, z) - WeekDays, z)

\* if (date < oneWeekAgo) return false
WeekPasses(log, t, z) == ~(ParseDate(log.date) < OneWeekAgo(t, z))

\* contentMatch, with query = searchQuery.toLowerCase()
ContentMatch(log, query) ==
    \/ Includes(ToLowerCase(log.activity), query)
    \/ Includes(ToLowerCase(log.learnings), query)
    \/ Includes(ToLowerCase(log.challenges), query)

\* if (searchQuery) { ... if (!contentMatch) return false }
SearchPasses(log, q) == ~(q # <<>> /\ ~ContentMatch(log, ToLowerCase(q)))

\* if (selectedAttendance && log.attendance !== selectedAttendance) return false
AttendanceStrict(log, a) == log.attendance = a
AttendancePasses(log, a) == ~(a # "" /\ log.attendance # a)

\* if (selectedTag && !log.tags.includes(selectedTag)) return false
TagIgnored(log, tag) == TRUE
TagPasses(log, tag) == ~(tag # "" /\ ~TagsInclude(log.tags, tag))

\* The callback of logs.filter.
LogPasses(log, fw, q, a, tag, t, z) ==
    /\ fw => WeekPasses(log, t, z)
    /\ SearchPasses(log, q)
    /\ AttendancePasses(log, a)
    /\ TagPasses(log, tag)

\* displayedLogs: logs.filter(...)
Reversed(s) == [i \in 1..Len(s) |-> s[Len(s) + 1 - i]]
DisplayedLogsReversed(ls, fw, q, a, tag, t, z) ==
    Reversed(SelectSeq(ls, LAMBDA log : LogPasses(log, fw, q, a, tag, t, z)))
DisplayedLogsSkipFirst(ls, fw, q, a, tag, t, z) ==
    LET kept == SelectSeq(ls, LAMBDA log : LogPasses(log, fw, q, a, tag, t, z))
    IN  SubSeq(kept, 2, Len(kept))
DisplayedLogs(ls, fw, q, a, tag, t, z) ==
    SelectSeq(ls, LAMBDA log : LogPasses(log, fw, q, a, tag, t, z))

\* uniqueTags: the options of the tag filter
UniqueTags(ls) ==
    UNION { { ls[i].tags[k] : k \in 1..Len(ls[i].tags) } : i \in 1..Len(ls) }

\* ------------------------------------------------- the Logbook as a machine
\* Dashboard and logs view both render the Logbook over data.logs, which
\* saveLog keeps sorted by date, newest first; ids are unique.
FilterNow0 == DaysFromCivil(2024, 6, 14) * DayLen + 20

LogInputs ==
    { [date |-> s[1], attendance |-> s[2], activity |-> s[3],
       learnings |-> s[4], challenges |-> s[5], tags |-> s[6]] : s \in LogSamples }

SortedByDateDesc(ls) ==
    \A i \in 1..Len(ls), j \in 1..Len(ls) :
        i < j => ParseDate(ls[i].date) >= ParseDate(ls[j].date)

LogLists ==
    { ls \in UNION { [1..n -> LogInputs] : n \in 0..MaxLogs } : SortedByDateDesc(ls) }

WithIds(ls) ==
    [i \in 1..Len(ls) |->
        [id |-> i, date |-> ls[i].date, attendance |-> ls[i].attendance,
         activity |-> ls[i].activity, learnings |-> ls[i].learnings,
         challenges |-> ls[i].challenges, tags |-> ls[i].tags]]

TimelineIdle ==
    /\ projects = <<>>
    /\ timelineData = Null
    /\ rawBounds = Null
    /\ todayPercent = NoMarker
    /\ bars = <<>>

\* The useMemo of displayedLogs runs again, reading the clock.
Refilter(fw, q, a, tag) ==
    /\ displayedLogs' = DisplayedLogs(logs, fw, q, a, tag, now, tz)
    /\ filterAt' = now

\* The app opens on the dashboard with the stored logs.
InitFilter ==
    /\ now = FilterNow0
    /\ tz \in TimeZones
    /\ logs \in { WithIds(ls) : ls \in LogLists }
    /\ filterWeek = TRUE
    /\ searchQuery = <<>>
    /\ selectedAttendance = ""
    /\ selectedTag = ""
    /\ displayedLogs = DisplayedLogs(logs, TRUE, <<>>, "", "", now, tz)
    /\ filterAt = now
    /\ TimelineIdle
    /\ AIIdle
    /\ ReportIdle
    /\ StoreIdle

\* onChange of the search box
SetSearchQuery ==
    \E q \in SearchQueries :
        /\ q # searchQuery
        /\ searchQuery' = q
        /\ Refilter(filterWeek, q, selectedAttendance, selectedTag)
        /\ UNCHANGED <<logs, filterWeek, selectedAttendance, selectedTag>>
        /\ UNCHANGED <<now, tz, timelineVars, aiVars, reportVars, storeVars>>

\* onChange of the attendance select
SetSelectedAttendance ==
    \E a \in {""} \cup AttendanceStatus :
        /\ a # selectedAttendance
        /\ selectedAttendance' = a
        /\ Refilter(filterWeek, searchQuery, a, selectedTag)
        /\ UNCHANGED <<logs, filterWeek, searchQuery, selectedTag>>
        /\ UNCHANGED <<now, tz, timelineVars, aiVars, reportVars, storeVars>>

\* onChange of the tag select
SetSelectedTag ==
    \E tag \in {""} \cup UniqueTags(logs) :
        /\ tag # selectedTag
        /\ selectedTag' = tag
        /\ Refilter(filterWeek, searchQuery, selectedAttendance, tag)
        /\ UNCHANGED <<logs, filterWeek, searchQuery, selectedAttendance>>
        /\ UNCHANGED <<now, tz, timelineVars, aiVars, reportVars, storeVars>>

\* Switching between the dashboard (filterWeek) and the logs view mounts a
\* fresh Logbook: its filter state starts empty.
OpenView ==
    /\ filterWeek' = ~filterWeek
    /\ searchQuery' = <<>>
    /\ selectedAttendance' = ""
    /\ selectedTag' = ""
    /\ Refilter(filterWeek', <<>>, "", "")
    /\ UNCHANGED <<logs, now, tz, timelineVars, aiVars, reportVars, storeVars>>

\* Time passes.
FilterTick ==
    /\ now + FilterTickStep <= FilterNow0 + MaxTicks * FilterTickStep
    /\ now' = now + FilterTickStep
    /\ UNCHANGED <<tz, timelineVars, filterVars, aiVars, reportVars, storeVars>>

NextFilter ==
    SetSearchQuery \/ SetSelectedAttendance \/ SetSelectedTag \/ OpenView \/ FilterTick

SpecFilter == InitFilter /\ [][NextFilter]_vars

\* ------------------------------------------------ properties of the filter
\* Helpers of the properties (they do not model code).
Shown(log) == \E k \in 1..Len(displayedLogs) : displayedLogs[k] = log
NoTextFilter == searchQuery = <<>> /\ selectedAttendance = "" /\ selectedTag = ""
SameLetter(c, d) == c = d \/ {c, d} = {"a", "A"} \/ {c, d} = {"b", "B"}
ContainsIgnoringCase(text, q) ==
    \E off \in 0..(Len(text) - Len(q)) :
        \A k \in 1..Len(q) : SameLetter(text[off + k], q[k])
LogDay(log) == DaysFromCivil(log.date[1], log.date[2], log.date[3])
LogInstant(log) == UTC(log.date[1], log.date[2], log.date[3])
LocalDay(t) == (t + tz) \div 24
FilterClock == { FilterNow0 + k * FilterTickStep : k \in 0..MaxTicks }

\* C14: the displayed logs are exactly the logs that satisfy every active
\* predicate: the search text occurs (ignoring case) in activity, learnings or
\* challenges; the attendance equals the selected one; the selected tag is
\* among the log's tags; with filterWeek, the log is dated no earlier than
\* seven days before the evaluation.  An empty filter value admits every log.
C14_ConjunctionOfPredicates ==
    /\ \A k \in 1..Len(displayedLogs) : \E i \in 1..Len(logs) : displayedLogs[k] = logs[i]
    /\ \A i \in 1..Len(logs) :
          Shown(logs[i]) <=>
              /\ filterWeek => LogInstant(logs[i]) >= filterAt - 7 * 24
              /\ searchQuery # <<>> =>
                    \/ ContainsIgnoringCase(logs[i].activity, searchQuery)
                    \/ ContainsIgnoringCase(logs[i].learnings, searchQuery)
                    \/ ContainsIgnoringCase(logs[i].challenges, searchQuery)
              /\ selectedAttendance # "" => logs[i].attendance = selectedAttendance
              /\ selectedTag # "" =>
                    selectedTag \in { logs[i].tags[k] : k \in 1..Len(logs[i].tags) }

C14_Witness ==
    /\ filterWeek
    /\ searchQuery = <<"a", "B">>
    /\ selectedAttendance = "Present"
    /\ selectedTag = "x"
    /\ Len(logs) = 3
    /\ Len(displayedLogs) = 1
    /\ displayedLogs[1].challenges = <<"A", "B">>

\* C15 (as claimed): in the week view a log is shown exactly when its date
\* lies in the trailing seven-day window that ends at the evaluation: no
\* earlier than seven days before it and no later than its calendar day.
\* With today = 2024-06-15 a log of 2024-06-01 is left out and a log of
\* 2024-06-10 is shown.
C15_TrailingWeek ==
    (filterWeek /\ NoTextFilter) =>
        \A i \in 1..Len(logs) :
            /\ Shown(logs[i]) <=>
                  /\ LogInstant(logs[i]) >= filterAt - 7 * 24
                  /\ LogDay(logs[i]) <= LocalDay(filterAt)
            /\ LocalDay(filterAt) = DaysFromCivil(2024, 6, 15) =>
                  /\ logs[i].date = <<2024, 6, 1>> => ~Shown(logs[i])
                  /\ logs[i].date = <<2024, 6, 10>> => Shown(logs[i])

\* C16 (as claimed): the week predicate looks at dates only: evaluated again
\* at another time of the same calendar day it keeps and drops the same logs.
C16_DateOnlyWeek ==
    (filterWeek /\ NoTextFilter /\ LocalDay(now) = LocalDay(filterAt)) =>
        displayedLogs = DisplayedLogs(logs, TRUE, <<>>, "", "", now, tz)

\* C17: with no week view and every filter value empty, the displayed logs
\* are the logs themselves, in their order.
C17_EmptyFilterIsIdentity ==
    (~filterWeek /\ NoTextFilter) => displayedLogs = logs

C17_Witness ==
    /\ ~filterWeek
    /\ NoTextFilter
    /\ Len(logs) = 3
    /\ logs[3].date = <<2024, 6, 1>>
    /\ logs[1].attendance # logs[2].attendance
    /\ displayedLogs = logs

\* C18: the displayed logs are a subsequence of the logs: each one is a log,
\* none is shown twice, and they keep the order they have among the logs.
C18_Subsequence ==
    \E f \in [1..Len(displayedLogs) -> 1..Len(logs)] :
        /\ \A k \in 1..Len(displayedLogs) : displayedLogs[k] = logs[f[k]]
        /\ \A k \in 1..(Len(displayedLogs) - 1) : f[k] < f[k + 1]

C18_Witness ==
    /\ Len(logs) = 3
    /\ ~NoTextFilter
    /\ displayedLogs = <<logs[1], logs[3]>>

\* C19: filtering is idempotent: the same filter values at the same
\* evaluation time, applied to the displayed logs, keep all of them.
C19_Idempotent ==
    DisplayedLogs(displayedLogs, filterWeek, searchQuery, selectedAttendance,
                  selectedTag, filterAt, tz) = displayedLogs

C19_Witness ==
    /\ filterWeek
    /\ ~NoTextFilter
    /\ Len(logs) = 3
    /\ Len(displayedLogs) = 2

\* ======================================================== the AI text helper
\* src/services/geminiService.ts (getClient, generateTextImprovement) and its
\* caller handleAIImprove of the Logbook.  What a function does is a record:
\* it returns a value or it throws.
MaxCalls == 2

Drafts == { <<>>, <<"a">>, <<" ", "b", " ">> }
\* What generateContent does: it rejects, or it resolves with a response
\* whose text is undefined ("notext") or a string.
Responses ==
    { [kind |-> "rejected", text |-> <<>>],
      [kind |-> "notext", text |-> <<>>],
      [kind |-> "text", text |-> <<" ", "B", " ">>],
      [kind |-> "text", text |-> <<" ">>] }
NoClient == [kind |-> "noclient", text |-> <<>>]
NoResponse == [kind |-> "none", text |-> <<>>]

Returned(v) == [kind |-> "return", value |-> v]
Thrown == [kind |-> "throw", value |-> <<>>]
Pending == [kind |-> "pending", value |-> <<>>]

\* String.prototype.trim
NonSpace(s) == { i \in 1..Len(s) : s[i] # " " }
Trim(s) ==
    IF NonSpace(s) = {} THEN <<>>
    ELSE SubSeq(s, CHOOSE i \in NonSpace(s) : \A j \in NonSpace(s) : i <= j,
                   CHOOSE i \in NonSpace(s) : \A j \in NonSpace(s) : j <= i)

\* The try block: await generateContent(...); return response.text.trim()
\* (a rejection is thrown by await, undefined.trim() is a TypeError).
TryBlock(response) ==
    IF response.kind = "text" THEN Returned(Trim(response.text)) ELSE Thrown

\* catch (error) { ...; return currentText }
CatchRethrows(outcome, currentText) == outcome
Catch(outcome, currentText) ==
    IF outcome.kind = "throw" THEN Returned(currentText) ELSE outcome

\* generateTextImprovement, once getClient gave a client and the request ended
GenerateTextImprovement(currentText, response) ==
    Catch(TryBlock(response), currentText)

\* generateTextImprovement when getClient returns null
WithoutClient(currentText) == Returned(currentText)

\* A call of handleAIImprove that has reached its await.
StartCall(field, currentText, key) ==
    IF key
    THEN [field |-> field, currentText |-> currentText, stage |-> "awaiting",
          response |-> NoResponse, result |-> Pending]
    ELSE [field |-> field, currentText |-> currentText, stage |-> "settled",
          response |-> NoClient, result |-> WithoutClient(currentText)]

\* A settled promise resumes its awaiter in a microtask, before any further
\* user event is handled.
Settling(cs) == \E i \in 1..Len(cs) : cs[i].stage = "settled"

RemoveCall(cs, i) == [k \in 1..(Len(cs) - 1) |-> IF k < i THEN cs[k] ELSE cs[k + 1]]

\* The entry modal is open on a log; the key is set or not.
InitAI ==
    /\ now = Now0
    /\ tz = 0
    /\ TimelineIdle
    /\ FilterIdle
    /\ ReportIdle
    /\ StoreIdle
    /\ apiKey \in BOOLEAN
    /\ editingLog \in [activity : Drafts, learnings : Drafts]
    /\ isThinking = FALSE
    /\ calls = <<>>

\* onChange of the activity and learnings textareas
TypeDraft ==
    \E field \in {"activity", "learnings"}, text \in Drafts :
        /\ ~Settling(calls)
        /\ text # editingLog[field]
        /\ editingLog' = [editingLog EXCEPT ![field] = text]
        /\ UNCHANGED <<apiKey, isThinking, calls>>
        /\ UNCHANGED <<now, tz, timelineVars, filterVars, reportVars, storeVars>>

\* handleAIImprove(field) up to its await; the activity button is disabled
\* while isThinking, the learnings button is not.
HandleAIImprove ==
    \E field \in {"activity", "learnings"} :
        /\ ~Settling(calls)
        /\ Len(calls) < MaxCalls
        /\ field = "activity" => ~isThinking
        /\ editingLog[field] # <<>>
        /\ isThinking' = TRUE
        /\ calls' = Append(calls, StartCall(field, editingLog[field], apiKey))
        /\ UNCHANGED <<apiKey, editingLog>>
        /\ UNCHANGED <<now, tz, timelineVars, filterVars, reportVars, storeVars>>

\* The request of a call ends and generateTextImprovement finishes.
Respond ==
    \E i \in 1..Len(calls), response \in Responses :
        /\ calls[i].stage = "awaiting"
        /\ calls' = [calls EXCEPT ![i].stage = "settled",
                                  ![i].response = response,
                                  ![i].result = GenerateTextImprovement(calls[i].currentText, response)]
        /\ UNCHANGED <<apiKey, editingLog, isThinking>>
        /\ UNCHANGED <<now, tz, timelineVars, filterVars, reportVars, storeVars>>

\* handleAIImprove after its await: setEditingLog and setIsThinking(false);
\* were the helper to throw, neither would run.
Resume ==
    \E i \in 1..Len(calls) :
        /\ calls[i].stage = "settled"
        /\ calls' = RemoveCall(calls, i)
        /\ IF calls[i].result.kind = "return"
           THEN /\ editingLog' = [editingLog EXCEPT ![calls[i].field] = calls[i].result.value]
                /\ isThinking' = FALSE
           ELSE UNCHANGED <<editingLog, isThinking>>
        /\ UNCHANGED <<apiKey, now, tz, timelineVars, filterVars, reportVars, storeVars>>

NextAI == TypeDraft \/ HandleAIImprove \/ Respond \/ Resume

SpecAI == InitAI /\ [][NextAI]_vars

\* C20: generateTextImprovement never throws, and whenever there is no API
\* key or the request fails in any way, a response without text included, it
\* returns the text it was given, unchanged; without a key no request is made.
C20_ImprovementFallsBack ==
    \A i \in 1..Len(calls) :
        /\ ~apiKey => calls[i].stage = "settled" /\ calls[i].response.kind = "noclient"
        /\ calls[i].stage = "settled" =>
              /\ calls[i].result.kind = "return"
              /\ calls[i].response.kind \in {"noclient", "rejected", "notext"} =>
                    calls[i].result.value = calls[i].currentText

C20_Witness ==
    \E i \in 1..Len(calls) :
        /\ calls[i].stage = "settled"
        /\ calls[i].response.kind = "notext"
        /\ calls[i].currentText = <<" ", "b", " ">>
        /\ calls[i].result = [kind |-> "return", value |-> <<" ", "b", " ">>]

\* C27 (as claimed): in the log editor isThinking is true whenever a
\* text-improvement request is in flight, and at most one request is in
\* flight at a time.
InFlight == { i \in 1..Len(calls) : calls[i].stage = "awaiting" }
C27_OneRequestWhileThinking ==
    /\ InFlight # {} => isThinking
    /\ Cardinality(InFlight) <= 1

\* ========================================================= the report editor
\* src/components/Reports.tsx (handleOpenModal, the month input,
\* handleAutoSummarize) and generateMonthlySummary of geminiService.ts.
\* A month "YYYY-MM" is <<y, m>>, the empty string is NoMonth; a fixed message
\* is a text of one token.
NoMonth == <<>>
ReportMonths == { <<2024, 5>>, <<2024, 6>> }

\* The logs prop: logs of two months, or of one month only.
ReportLogSamples ==
    { << << <<2024, 6, 10>>, "Present", <<"a">>, <<"b">>, <<>>, <<>> >>,
         << <<2024, 6, 1>>,  "Present", <<"b">>, <<>>,    <<>>, <<>> >>,
         << <<2024, 5, 20>>, "WFH",     <<"a">>, <<>>,    <<>>, <<>> >> >>,
      << << <<2024, 6, 10>>, "Present", <<"a">>, <<"b">>, <<>>, <<>> >> >> }

AsLogs(samples) ==
    [i \in 1..Len(samples) |->
        [id |-> i, date |-> samples[i][1], attendance |-> samples[i][2],
         activity |-> samples[i][3], learnings |-> samples[i][4],
         challenges |-> samples[i][5], tags |-> samples[i][6]]]

\* The reports of the board that a click on a card opens.
SavedReports ==
    { [id |-> 1, month |-> <<2024, 6>>, summary |-> <<"a">>, linkedLogIds |-> <<>>],
      [id |-> 2, month |-> <<2024, 5>>, summary |-> <<>>, linkedLogIds |-> <<>>] }

\* new Date().toISOString().slice(0, 7)
IsoMonthOf(c) == <<c.year, c.month>>
IsoMonth(t) == IsoMonthOf(CivilFromDays(t \div DayLen))

\* handleOpenModal(): the template with a fresh id and the current month
NewReport(t) ==
    [id |-> Cardinality(SavedReports) + 1, month |-> IsoMonth(t),
     summary |-> <<>>, linkedLogIds |-> <<>>]

\* l.date.startsWith(`${year}-${month}`)
StartsWithMonth(date, ym) == date[1] = ym[1] /\ date[2] = ym[2]

\* monthLogs
MonthLogs(ls, ym) == SelectSeq(ls, LAMBDA l : StartsWithMonth(l.date, ym))

\* monthLogs.map(l => l.id)
LogIds(ls) == [i \in 1..Len(ls) |-> ls[i].id]

Unavailable == << "AI services unavailable." >>
Failed == << "Failed to generate summary." >>

\* The try block of generateMonthlySummary
SummaryTryBlock(response) ==
    IF response.kind = "text" THEN Returned(Trim(response.text)) ELSE Thrown

\* catch (error) { ...; return "Failed to generate summary." }
SummaryCatchRethrows(outcome) == outcome
SummaryCatch(outcome) ==
    IF outcome.kind = "throw" THEN Returned(Failed) ELSE outcome

\* generateMonthlySummary, once getClient gave a client and the request ended
GenerateMonthlySummary(response) == SummaryCatch(SummaryTryBlock(response))

\* generateMonthlySummary when getClient returns null
SummaryWithoutClient == Returned(Unavailable)

\* A call of handleAutoSummarize that has reached its await: the report and
\* month it was made for and the ids of the monthLogs it holds.
StartSummary(report, monthLogs, key) ==
    IF key
    THEN [reportId |-> report.id, month |-> report.month, logIds |-> LogIds(monthLogs),
          stage |-> "awaiting", response |-> NoResponse, result |-> Pending]
    ELSE [reportId |-> report.id, month |-> report.month, logIds |-> LogIds(monthLogs),
          stage |-> "settled", response |-> NoClient, result |-> SummaryWithoutClient]

InitReports ==
    /\ now = FilterNow0
    /\ tz = 0
    /\ TimelineIdle
    /\ logs \in { AsLogs(samples) : samples \in ReportLogSamples }
    /\ filterWeek = FALSE
    /\ searchQuery = <<>>
    /\ selectedAttendance = ""
    /\ selectedTag = ""
    /\ displayedLogs = <<>>
    /\ filterAt = now
    /\ apiKey \in BOOLEAN
    /\ editingLog = [activity |-> <<>>, learnings |-> <<>>]
    /\ isThinking = FALSE
    /\ calls = <<>>
    /\ ReportIdle
    /\ StoreIdle

\* handleOpenModal(report) and handleOpenModal()
OpenReport ==
    \E report \in SavedReports \cup {NewReport(now)} :
        /\ ~Settling(summaryCalls)
        /\ editingReport' = report
        /\ UNCHANGED <<isSummarizing, summaryCalls>>
        /\ UNCHANGED <<now, tz, timelineVars, filterVars, aiVars, storeVars>>

\* onChange of the month input
ChangeMonth ==
    \E month \in ReportMonths \cup {NoMonth} :
        /\ ~Settling(summaryCalls)
        /\ editingReport.id # NoId
        /\ month # editingReport.month
        /\ editingReport' = [editingReport EXCEPT !.month = month]
        /\ UNCHANGED <<isSummarizing, summaryCalls>>
        /\ UNCHANGED <<now, tz, timelineVars, filterVars, aiVars, storeVars>>

\* handleAutoSummarize up to its await; the button is disabled while
\* isSummarizing or without a month, and a month without logs only alerts.
HandleAutoSummarize ==
    /\ ~isSummarizing
    /\ editingReport.month # NoMonth
    /\ MonthLogs(logs, editingReport.month) # <<>>
    /\ isSummarizing' = TRUE
    /\ summaryCalls' =
          Append(summaryCalls,
                 StartSummary(editingReport, MonthLogs(logs, editingReport.month), apiKey))
    /\ UNCHANGED <<editingReport>>
    /\ UNCHANGED <<now, tz, timelineVars, filterVars, aiVars, storeVars>>

\* The request of a call ends and generateMonthlySummary finishes.
SummaryRespond ==
    \E i \in 1..Len(summaryCalls), response \in Responses :
        /\ summaryCalls[i].stage = "awaiting"
        /\ summaryCalls' = [summaryCalls EXCEPT ![i].stage = "settled",
                                                ![i].response = response,
                                                ![i].result = GenerateMonthlySummary(response)]
        /\ UNCHANGED <<editingReport, isSummarizing>>
        /\ UNCHANGED <<now, tz, timelineVars, filterVars, aiVars, storeVars>>

\* handleAutoSummarize after its await: setEditingReport(prev => ...) and
\* setIsSummarizing(false); were the helper to throw, neither would run.
SummaryResume ==
    \E i \in 1..Len(summaryCalls) :
        /\ summaryCalls[i].stage = "settled"
        /\ summaryCalls' = RemoveCall(summaryCalls, i)
        /\ IF summaryCalls[i].result.kind = "return"
           THEN /\ editingReport' = [editingReport EXCEPT
                                        !.summary = summaryCalls[i].result.value,
                                        !.linkedLogIds = summaryCalls[i].logIds]
                /\ isSummarizing' = FALSE
           ELSE UNCHANGED <<editingReport, isSummarizing>>
        /\ UNCHANGED <<now, tz, timelineVars, filterVars, aiVars, storeVars>>

NextReports ==
    OpenReport \/ ChangeMonth \/ HandleAutoSummarize \/ SummaryRespond \/ SummaryResume

SpecReports == InitReports /\ [][NextReports]_vars

\* C21: generateMonthlySummary never throws; without a key or when the
\* request fails in any way it returns one of its fixed fallback strings, so
\* the editor always receives a string; and once no call is outstanding the
\* isSummarizing flag is reset.
C21_SummaryFallsBack ==
    /\ \A i \in 1..Len(summaryCalls) :
          summaryCalls[i].stage = "settled" =>
              /\ summaryCalls[i].result.kind = "return"
              /\ summaryCalls[i].response.kind = "noclient" =>
                    summaryCalls[i].result.value = << "AI services unavailable." >>
              /\ summaryCalls[i].response.kind \in {"rejected", "notext"} =>
                    summaryCalls[i].result.value = << "Failed to generate summary." >>
    /\ summaryCalls = <<>> => ~isSummarizing
    /\ ~apiKey => \A i \in 1..Len(summaryCalls) : summaryCalls[i].response.kind = "noclient"

C21_Witness ==
    /\ summaryCalls = <<>>
    /\ ~isSummarizing
    /\ editingReport.summary = << "Failed to generate summary." >>
    /\ editingReport.linkedLogIds # <<>>

\* C26 (as claimed): when the response of an auto-summarize call arrives,
\* its summary and linkedLogIds are written only if the report being edited
\* is still the report, with the month, the call was made for; a stale
\* result leaves the report being edited as it is.
C26_NoStaleSummary ==
    [][\A i \in 1..Len(summaryCalls) :
          (/\ summaryCalls[i].stage = "settled"
           /\ summaryCalls' = RemoveCall(summaryCalls, i)
           /\ \/ summaryCalls[i].reportId # editingReport.id
              \/ summaryCalls[i].month # editingReport.month)
          => editingReport' = editingReport]_vars

\* ============================================ the rows under the wall clock
\* new Date() reads the wall clock, which the system may set forward or
\* back between two renders of the timeline.  Here every clock change is
\* followed at once by a render of the rows, so `bars` is always the rows
\* as drawn at `now`; the memos keep the values of their last computation.
WallClocks ==
    { DaysFromCivil(2024, 1, 5) * DayLen + 12, DaysFromCivil(2024, 2, 20) * DayLen + 12 }

InitRows ==
    /\ now \in WallClocks
    /\ tz = -5
    /\ TimelineIdle
    /\ FilterIdle
    /\ AIIdle
    /\ ReportIdle
    /\ StoreIdle

\* A render of the rows (projects unchanged) at another clock reading.
RenderAt ==
    \E t \in WallClocks :
        /\ t # now
        /\ now' = t
        /\ bars' = Bars(projects, timelineData, t)
        /\ UNCHANGED <<projects, tz, timelineData, rawBounds, todayPercent>>
        /\ UNCHANGED <<filterVars, aiVars, reportVars, storeVars>>

NextRows == EditProject \/ AddProject \/ DeleteProject \/ RenderAt

SpecRows == InitRows /\ [][NextRows]_vars

\* C24: a drawn project whose interval lies entirely before minDate has
\* startPercent > endPercent after the clamping of each edge, and the width
\* floor gives it a width of 1%.
C24_BeforeWindowStartAfterEnd ==
    \A i \in 1..Len(bars) :
        (/\ RuleStart(projects[i], now) < timelineData.minDate
         /\ RuleEnd(projects[i], now) < timelineData.minDate)
        => /\ bars[i].startPercent > bars[i].endPercent
           /\ bars[i].widthPercent = 1 * Total

C24_Witness ==
    \E i \in 1..Len(bars) :
        /\ RuleStart(projects[i], now) <= RuleEnd(projects[i], now)
        /\ RuleEnd(projects[i], now) < timelineData.minDate
        /\ bars[i].startPercent = 0
        /\ bars[i].endPercent < 0
        /\ bars[i].widthPercent = 1 * Total

\* ================================================================ the store
\* src/App.tsx: the `data` state, its six actions and the two effects that
\* load it from and save it to localStorage; with the delete confirmation of
\* the Logbook (logToDelete) and of window.confirm.  A record keeps its id
\* and the one field the store or the properties look at.
MaxRecords == 3

LogDates == { <<2024, 6, 1>>, <<2024, 6, 10>> }
ProjectNames == { "p", "q" }

RecordCount(d) == Len(d.logs) + Len(d.reports) + Len(d.projects)

\* crypto.randomUUID(): an id no record of the collection has
Ids(rs) == { rs[i].id : i \in 1..Len(rs) }
FreshId(rs) == CHOOSE id \in 1..(Len(rs) + 1) : id \notin Ids(rs)

\* prev.logs.find(l => l.id === log.id) (and the same for reports, projects)
ExistsNever(rs, id) == FALSE
Exists(rs, id) == \E i \in 1..Len(rs) : rs[i].id = id

\* prev.logs.map(l => l.id === log.id ? log : l)
ReplaceById(rs, r) == [i \in 1..Len(rs) |-> IF rs[i].id = r.id THEN r ELSE rs[i]]

\* newLogs.sort((a, b) => new Date(b.date).getTime() - new Date(a.date).getTime())
\* (Array.prototype.sort is stable)
InsertByDate(sorted, x, k) ==
    SubSeq(sorted, 1, k) \o <<x>> \o SubSeq(sorted, k + 1, Len(sorted))
InsertPoint(sorted, x) ==
    Cardinality({ i \in 1..Len(sorted) : ParseDate(sorted[i].date) >= ParseDate(x.date) })
RECURSIVE SortPrefix(_, _)
SortPrefix(ls, n) ==
    IF n = 0 THEN <<>>
    ELSE InsertByDate(SortPrefix(ls, n - 1), ls[n], InsertPoint(SortPrefix(ls, n - 1), ls[n]))
SortLogsNone(ls) == ls
SortLogs(ls) == SortPrefix(ls, Len(ls))

\* saveLog
SaveLog(ls, log) ==
    SortLogs(IF Exists(ls, log.id) THEN ReplaceById(ls, log) ELSE <<log>> \o ls)

\* saveReport
SaveReport(rs, report) ==
    IF Exists(rs, report.id) THEN ReplaceById(rs, report) ELSE Append(rs, report)

\* saveProject
SaveProject(ps, project) ==
    IF Exists(ps, project.id) THEN ReplaceById(ps, project) ELSE Append(ps, project)

\* prev.logs.filter(l => l.id !== id) (and the same for reports, projects)
RemoveFirst(rs, id) == SubSeq(rs, 2, Len(rs))
RemoveById(rs, id) == SelectSeq(rs, LAMBDA r : r.id # id)

\* JSON.stringify(data): the text, as the nested list of its keys and values
StringifyLog(l) == << "id", l.id, "date", l.date >>
StringifyReport(r) == << "id", r.id, "month", r.month >>
StringifyProject(q) == << "id", q.id, "name", q.name >>
StringifyLogsOnly(d) ==
    << "logs", [i \in 1..Len(d.logs) |-> StringifyLog(d.logs[i])],
       "reports", <<>>, "projects", <<>> >>
Stringify(d) ==
    << "logs", [i \in 1..Len(d.logs) |-> StringifyLog(d.logs[i])],
       "reports", [i \in 1..Len(d.reports) |-> StringifyReport(d.reports[i])],
       "projects", [i \in 1..Len(d.projects) |-> StringifyProject(d.projects[i])] >>

\* JSON.parse(saved)
ParseJson(text) ==
    [logs |-> [i \in 1..Len(text[2]) |-> [id |-> text[2][i][2], date |-> text[2][i][4]]],
     reports |-> [i \in 1..Len(text[4]) |-> [id |-> text[4][i][2], month |-> text[4][i][4]]],
     projects |-> [i \in 1..Len(text[6]) |-> [id |-> text[6][i][2], name |-> text[6][i][4]]]]

\* What localStorage holds under the key: nothing, a text that JSON.parse
\* rejects, or a text written by the save effect.
Corrupt == [item |-> "corrupt"]
Item(text) == [item |-> "json", text |-> text]

\* ------------------------------------------------------ the store's machine
StartSnapshot ==
    [logs |-> << [id |-> 1, date |-> <<2024, 6, 10>>] >>,
     reports |-> << [id |-> 1, month |-> <<2024, 6>>] >>,
     projects |-> <<>>]

\* App has mounted: the first render saw INITIAL_DATA, its effects are due.
InitStore ==
    /\ now = Now0
    /\ tz = 0
    /\ TimelineIdle
    /\ FilterIdle
    /\ AIIdle
    /\ ReportIdle
    /\ data = INITIAL_DATA
    /\ pending = Null
    /\ stored \in { NoItem, Corrupt, Item(Stringify(StartSnapshot)) }
    /\ phase = "load"
    /\ logToDelete = NoId
    /\ confirmDialog = Null

\* The load effect: getItem, and setData(JSON.parse(saved)) when there is an
\* item that parses; setData only queues the value for the next render.
LoadEffect ==
    /\ phase = "load"
    /\ pending' = IF stored.item = "json" THEN ParseJson(stored.text) ELSE Null
    /\ phase' = "save"
    /\ UNCHANGED <<data, stored, logToDelete, confirmDialog>>
    /\ UNCHANGED <<now, tz, timelineVars, filterVars, aiVars, reportVars>>

\* The save effect: setItem(KEY, JSON.stringify(data)) with the data of the
\* render it belongs to; a queued setData is rendered afterwards.
SaveEffect ==
    /\ phase = "save"
    /\ stored' = Item(Stringify(data))
    /\ phase' = IF pending # Null THEN "render" ELSE "idle"
    /\ UNCHANGED <<data, pending, logToDelete, confirmDialog>>
    /\ UNCHANGED <<now, tz, timelineVars, filterVars, aiVars, reportVars>>

\* The render of the queued state; `data` changed, so the save effect is due.
RenderLoaded ==
    /\ phase = "render"
    /\ data' = pending
    /\ pending' = Null
    /\ phase' = "save"
    /\ UNCHANGED <<stored, logToDelete, confirmDialog>>
    /\ UNCHANGED <<now, tz, timelineVars, filterVars, aiVars, reportVars>>

\* User events are handled once the effects have run and no dialog is open.
Idle == phase = "idle" /\ logToDelete = NoId /\ confirmDialog = Null

\* Logbook handleSave -> saveLog, for a new log (fresh id) or a log of the list
OnSaveLog ==
    \E id \in Ids(data.logs) \cup {FreshId(data.logs)}, date \in LogDates :
        /\ Idle
        /\ id \notin Ids(data.logs) => RecordCount(data) < MaxRecords
        /\ data' = [data EXCEPT !.logs = SaveLog(@, [id |-> id, date |-> date])]
        /\ phase' = "save"
        /\ UNCHANGED <<pending, stored, logToDelete, confirmDialog>>
        /\ UNCHANGED <<now, tz, timelineVars, filterVars, aiVars, reportVars>>

\* Reports handleSave -> saveReport
OnSaveReport ==
    \E id \in Ids(data.reports) \cup {FreshId(data.reports)}, month \in ReportMonths :
        /\ Idle
        /\ id \notin Ids(data.reports) => RecordCount(data) < MaxRecords
        /\ data' = [data EXCEPT !.reports = SaveReport(@, [id |-> id, month |-> month])]
        /\ phase' = "save"
        /\ UNCHANGED <<pending, stored, logToDelete, confirmDialog>>
        /\ UNCHANGED <<now, tz, timelineVars, filterVars, aiVars, reportVars>>

\* Projects handleSave -> saveProject
OnSaveProject ==
    \E id \in Ids(data.projects) \cup {FreshId(data.projects)}, name \in ProjectNames :
        /\ Idle
        /\ id \notin Ids(data.projects) => RecordCount(data) < MaxRecords
        /\ data' = [data EXCEPT !.projects = SaveProject(@, [id |-> id, name |-> name])]
        /\ phase' = "save"
        /\ UNCHANGED <<pending, stored, logToDelete, confirmDialog>>
        /\ UNCHANGED <<now, tz, timelineVars, filterVars, aiVars, reportVars>>

\* The delete button of a log row: setLogToDelete(log.id)
RequestDeleteLog ==
    \E id \in Ids(data.logs) :
        /\ Idle
        /\ logToDelete' = id
        /\ UNCHANGED <<data, pending, stored, phase, confirmDialog>>
        /\ UNCHANGED <<now, tz, timelineVars, filterVars, aiVars, reportVars>>

\* Cancel (or a click on the backdrop): setLogToDelete(null)
CancelDeleteLog ==
    /\ logToDelete # NoId
    /\ logToDelete' = NoId
    /\ UNCHANGED <<data, pending, stored, phase, confirmDialog>>
    /\ UNCHANGED <<now, tz, timelineVars, filterVars, aiVars, reportVars>>

\* confirmDelete: onDelete(logToDelete) -> deleteLog, setLogToDelete(null)
ConfirmDeleteLog ==
    /\ logToDelete # NoId
    /\ data' = [data EXCEPT !.logs = RemoveById(@, logToDelete)]
    /\ logToDelete' = NoId
    /\ phase' = "save"
    /\ UNCHANGED <<pending, stored, confirmDialog>>
    /\ UNCHANGED <<now, tz, timelineVars, filterVars, aiVars, reportVars>>

\* deleteReport up to confirm("Delete this report?")
AskDeleteReport ==
    \E id \in Ids(data.reports) :
        /\ Idle
        /\ confirmDialog' = [kind |-> "reports", id |-> id, answer |-> "open"]
        /\ UNCHANGED <<data, pending, stored, phase, logToDelete>>
        /\ UNCHANGED <<now, tz, timelineVars, filterVars, aiVars, reportVars>>

\* deleteProject up to confirm("Delete this project?")
AskDeleteProject ==
    \E id \in Ids(data.projects) :
        /\ Idle
        /\ confirmDialog' = [kind |-> "projects", id |-> id, answer |-> "open"]
        /\ UNCHANGED <<data, pending, stored, phase, logToDelete>>
        /\ UNCHANGED <<now, tz, timelineVars, filterVars, aiVars, reportVars>>

\* The user answers the dialog: confirm() returns true or false.
AnswerConfirm ==
    \E answer \in {"accepted", "declined"} :
        /\ confirmDialog # Null
        /\ confirmDialog.answer = "open"
        /\ confirmDialog' = [confirmDialog EXCEPT !.answer = answer]
        /\ UNCHANGED <<data, pending, stored, phase, logToDelete>>
        /\ UNCHANGED <<now, tz, timelineVars, filterVars, aiVars, reportVars>>

\* if (confirm(...)) setData(prev => ({...prev, reports: prev.reports.filter(...)}))
\* and the same for projects
Answered(kind) ==
    /\ confirmDialog # Null
    /\ confirmDialog.kind = kind
    /\ confirmDialog.answer # "open"

\* What the handler makes of the collection, given what confirm() returned.
IfConfirmedOrNot(rs, id, answer) == RemoveById(rs, id)
IfConfirmed(rs, id, answer) == IF answer = "accepted" THEN RemoveById(rs, id) ELSE rs

ResumeDeleteReport ==
    /\ Answered("reports")
    /\ data' = [data EXCEPT !.reports = IfConfirmed(@, confirmDialog.id, confirmDialog.answer)]
    /\ phase' = IF confirmDialog.answer = "accepted" THEN "save" ELSE phase
    /\ confirmDialog' = Null
    /\ UNCHANGED <<pending, stored, logToDelete>>
    /\ UNCHANGED <<now, tz, timelineVars, filterVars, aiVars, reportVars>>

ResumeDeleteProject ==
    /\ Answered("projects")
    /\ data' = [data EXCEPT !.projects = IfConfirmed(@, confirmDialog.id, confirmDialog.answer)]
    /\ phase' = IF confirmDialog.answer = "accepted" THEN "save" ELSE phase
    /\ confirmDialog' = Null
    /\ UNCHANGED <<pending, stored, logToDelete>>
    /\ UNCHANGED <<now, tz, timelineVars, filterVars, aiVars, reportVars>>

NextStore ==
    \/ LoadEffect \/ SaveEffect \/ RenderLoaded
    \/ OnSaveLog \/ OnSaveReport \/ OnSaveProject
    \/ RequestDeleteLog \/ CancelDeleteLog \/ ConfirmDeleteLog
    \/ AskDeleteReport \/ AskDeleteProject \/ AnswerConfirm
    \/ ResumeDeleteReport \/ ResumeDeleteProject

SpecStore == InitStore /\ [][NextStore]_vars

\* ------------------------------------------------- properties of the store
\* Helpers of the properties (they do not model code).
DistinctIds(rs) == \A i \in 1..Len(rs), j \in 1..Len(rs) : i # j => rs[i].id # rs[j].id
WithoutPosition(rs, k) == [i \in 1..(Len(rs) - 1) |-> IF i < k THEN rs[i] ELSE rs[i + 1]]
\* new is old without its one record of that id, the others in their order
RemovedExactly(old, new, id) ==
    \E k \in 1..Len(old) : old[k].id = id /\ new = WithoutPosition(old, k)
Lost(old, new) == \E i \in 1..Len(old) : \A j \in 1..Len(new) : new[j].id # old[i].id
UserStep == phase = "idle"

\* C22: once the save effect has run, the item stored under the key is the
\* serialization of the whole in-memory {logs, reports, projects}, and
\* parsing it gives the same collections back.
C22_SnapshotIsWholeState ==
    phase = "idle" =>
        /\ stored.item = "json"
        /\ stored.text = Stringify(data)
        /\ ParseJson(stored.text) = data

C22_Witness ==
    /\ phase = "idle"
    /\ Len(data.logs) = 1
    /\ Len(data.reports) = 1
    /\ Len(data.projects) = 1
    /\ ParseJson(stored.text) = data

\* C23: no two records of one collection share an id.
C23_UniqueIds ==
    /\ DistinctIds(data.logs)
    /\ DistinctIds(data.reports)
    /\ DistinctIds(data.projects)

C23_Witness ==
    /\ phase = "idle"
    /\ Len(data.logs) = 2
    /\ data.logs[1].id = 2
    /\ data.logs[2].id = 1
    /\ data.reports = << [id |-> 1, month |-> <<2024, 5>>] >>

\* C25 (as claimed): on startup with a snapshot stored, until the loaded
\* data is what App renders, the stored item is still that snapshot.
C25_SnapshotSurvivesStartup ==
    pending # Null => (stored.item = "json" /\ ParseJson(stored.text) = pending)

\* C28: the logs are ordered by date, newest first.
C28_LogsNewestFirst ==
    \A i \in 1..Len(data.logs), j \in 1..Len(data.logs) :
        i < j => UTC(data.logs[i].date[1], data.logs[i].date[2], data.logs[i].date[3])
                  >= UTC(data.logs[j].date[1], data.logs[j].date[2], data.logs[j].date[3])

C28_Witness ==
    /\ Len(data.logs) = 3
    /\ data.logs[1].date = <<2024, 6, 10>>
    /\ data.logs[3].date = <<2024, 6, 1>>
    /\ data.logs[1].id > data.logs[3].id

\* C29: a store operation changes its own collection only, and a delete
\* removes exactly the record with the given id, the others keeping their
\* order.
C29_FrameEffects ==
    [][UserStep =>
          /\ data'.logs # data.logs =>
                data'.reports = data.reports /\ data'.projects = data.projects
          /\ data'.reports # data.reports =>
                data'.logs = data.logs /\ data'.projects = data.projects
          /\ data'.projects # data.projects =>
                data'.logs = data.logs /\ data'.reports = data.reports
          /\ Len(data'.logs) < Len(data.logs) =>
                RemovedExactly(data.logs, data'.logs, logToDelete)
          /\ Len(data'.reports) < Len(data.reports) =>
                RemovedExactly(data.reports, data'.reports, confirmDialog.id)
          /\ Len(data'.projects) < Len(data.projects) =>
                RemovedExactly(data.projects, data'.projects, confirmDialog.id)]_vars

C29_Witness ==
    /\ phase = "save"
    /\ pending = Null
    /\ Len(data.logs) = 2
    /\ stored.item = "json"
    /\ Len(ParseJson(stored.text).logs) = 3
    /\ ParseJson(stored.text).logs[2].id \notin Ids(data.logs)
    /\ ParseJson(stored.text).reports = data.reports

\* C30: no record is deleted without confirmation: a log disappears only in
\* the step that confirms the pending logToDelete, which it clears; a report
\* or project disappears only when the dialog asked for it was accepted, and
\* a declined dialog closes with the data unchanged.
C30_DeleteNeedsConfirmation ==
    [][UserStep =>
          /\ Lost(data.logs, data'.logs) =>
                /\ logToDelete # NoId
                /\ RemovedExactly(data.logs, data'.logs, logToDelete)
                /\ logToDelete' = NoId
          /\ Lost(data.reports, data'.reports) =>
                /\ confirmDialog # Null
                /\ confirmDialog = [kind |-> "reports", id |-> confirmDialog.id, answer |-> "accepted"]
                /\ RemovedExactly(data.reports, data'.reports, confirmDialog.id)
          /\ Lost(data.projects, data'.projects) =>
                /\ confirmDialog # Null
                /\ confirmDialog = [kind |-> "projects", id |-> confirmDialog.id, answer |-> "accepted"]
                /\ RemovedExactly(data.projects, data'.projects, confirmDialog.id)
          /\ (confirmDialog # Null /\ confirmDialog.answer = "declined" /\ confirmDialog' = Null) =>
                data' = data]_vars

C30_Witness ==
    /\ phase = "idle"
    /\ confirmDialog = Null
    /\ logToDelete = NoId
    /\ stored.item = "json"
    /\ data = ParseJson(stored.text)
    /\ data.logs = <<>>
    /\ data.reports = <<>>
    /\ Len(data.projects) = 1
    /\ data.projects[1].id = 2

====
